---- MODULE Spec2Model ----
(***************************************************************************)
(* Sitemap Sniffer content script (src/sitemap-sniffer/content.js): one    *)
(* scan of one origin, from the cache check to the storage write.  Under   *)
(* RaceSpec a second page of the same origin runs the script at the same   *)
(* time.                                                                   *)
(*                                                                         *)
(* Strings that the code takes apart (URLs) are sequences of tokens:       *)
(* "/a/index.html" is <<"/a", "/index.html">>, "/sitemap.xml.gz" is        *)
(* <<"/sitemap", ".xml", ".gz">>, the empty string is <<>>.  All URLs are  *)
(* absolute paths on the scanned origin.  A string that `new URL` rejects  *)
(* starts with the token "[".                                              *)
(*                                                                         *)
(* JavaScript runs to completion between awaits: each action is one        *)
(* segment of code between two suspension points of the async functions.   *)
(* The page is one of an http(s) origin (content.js:225 returns at once    *)
(* on any other).                                                          *)
(***************************************************************************)
EXTENDS Integers, Sequences, FiniteSets, TLC

(* LIMITS (content.js:6-10), reduced so that every ceiling is reached.     *)
maxDepth == 1
maxSitemapsFetched == 3
maxUrlsStored == 2
(* TTL_MS (content.js:5) in clock ticks.                                   *)
TTL_MS == 2

Null == <<>>

Last(s) == s[Len(s)]
Front(s) == SubSeq(s, 1, Len(s) - 1)
Range(s) == {s[i] : i \in 1..Len(s)}

RECURSIVE Dedup(_)
(* Array.from(new Set(xs)): first occurrences, in order.                   *)
Dedup(xs) ==
    IF xs = <<>> THEN <<>>
    ELSE <<Head(xs)>> \o SelectSeq(Dedup(Tail(xs)), LAMBDA y : y # Head(xs))

(* ---------------- the universe of inputs ---------------- *)
(* location.origin, an http(s) origin (content.js:224-225).                *)
Origin == <<"/">>
(* Another http(s) origin.                                                 *)
OriginB == <<"/B">>

(* originKey that leaves the origin out.                                   *)
originKeyShared(origin) == <<"sitemap:">>

(* originKey (content.js:12-14).                                           *)
originKey(origin) == <<"sitemap:">> \o origin
ROBOTS == <<"/robots", ".txt">>
SM     == <<"/sitemap", ".xml">>
SMU    == <<"/sitemap_index", ".xml">>
SMD    == <<"/sitemap-index", ".xml">>
UA     == <<"/a", ".xml">>
UB     == <<"/b", ".xml", ".gz">>
UC     == <<"/c", ".xml">>
BadUrl == <<"[">>

PA  == <<"/p", "/">>
PAI == <<"/p", "/index.html">>
PQ  == <<"/q">>
PR  == <<"/r">>

SeqsUpTo(S, n) == UNION {[1..k -> S] : k \in 0..n}

(* The raw <loc> texts of the urlset documents a site may serve: none; a   *)
(* blank one and a page given by its index.html; two pages; a page twice   *)
(* (once by its index.html) and another; three pages.                      *)
UrlsetLocLists ==
    {<<>>, <<Null, PAI>>, <<PQ, PR>>, <<PA, PAI, PQ>>, <<PA, PQ, PR>>}

(* The raw <loc> texts of the sitemapindex documents: none; one child; two *)
(* children; a child twice around a <loc> that does not resolve; a child   *)
(* that robots.txt does not name.                                          *)
IndexLocLists ==
    {<<>>, <<UA>>, <<UA, UB>>, <<UB, BadUrl, UB>>, <<UC>>}

EmptyText == [kind |-> "empty", root |-> "", locs |-> <<>>]
MalformedText == [kind |-> "malformed", root |-> "", locs |-> <<>>]
XmlDoc(root, locs) == [kind |-> "xml", root |-> root, locs |-> locs]

XmlTexts ==
    {EmptyText, MalformedText, XmlDoc("html", <<BadUrl>>)}
    \cup {XmlDoc("urlset", l) : l \in UrlsetLocLists}
    \cup {XmlDoc("sitemapindex", l) : l \in IndexLocLists}

(* robots.txt: lines, each a Sitemap directive with a value or other text. *)
RobotsLine(isSitemap, value) == [sitemap |-> isSitemap, value |-> value]
RobotsLines == {RobotsLine(FALSE, <<"x">>)} \cup {RobotsLine(TRUE, v) : v \in {UA, UB, BadUrl}}
(* Up to two such lines, or one directive naming the conventional          *)
(* /sitemap.xml.                                                           *)
RobotsTexts == SeqsUpTo(RobotsLines, 2) \cup {<<RobotsLine(TRUE, SM)>>}

(* ---------------- helpers of content.js ---------------- *)
(* safeUrl: new URL(u, base) or null.                                      *)
safeUrl(u, base) ==
    IF u = <<>> THEN base
    ELSE IF Head(u) = "[" THEN Null
    ELSE u

Diag(msg, url) == [msg |-> msg, url |-> url]
NoMessage == Diag("", Null)

pushError(st, message) ==
    IF message = NoMessage THEN st
    ELSE [st EXCEPT !.errors = Append(@, message)]

pushTried(st, url, status, error) ==
    [st EXCEPT !.tried = Append(@, [url |-> url, status |-> status, error |-> error])]

(* markTruncated that leaves the flag alone.                               *)
markTruncatedNoFlag(st) ==
    pushError(st, Diag("URL list truncated", Null))

(* markTruncated without the test of the flag.                             *)
markTruncatedAlways(st) ==
    pushError([st EXCEPT !.truncated = TRUE], Diag("URL list truncated", Null))

(* markTruncated (content.js:39-43).                                       *)
markTruncated(st) ==
    IF st.truncated THEN st
    ELSE pushError([st EXCEPT !.truncated = TRUE], Diag("URL list truncated", Null))

(* normalizeUrl that cuts the /index.html off and puts no slash back.     *)
normalizeUrlDropsSuffix(u) ==
    LET url == safeUrl(u, Null)
    IN  IF url = Null THEN Null
        ELSE IF Last(url) = "/index.html" THEN Front(url)
        ELSE url

(* normalizeUrl (content.js:45-54).                                        *)
normalizeUrl(u) ==
    LET url == safeUrl(u, Null)
    IN  IF url = Null THEN Null
        ELSE IF Last(url) = "/index.html" THEN Append(Front(url), "/")
        ELSE url

RECURSIVE parseRobotsLines(_)
parseRobotsLines(text) ==
    IF text = <<>> THEN <<>>
    ELSE LET line == Head(text)
             rest == parseRobotsLines(Tail(text))
         IN  IF line.sitemap /\ line.value # <<>> THEN <<line.value>> \o rest ELSE rest

parseRobotsForSitemaps(text) == Dedup(parseRobotsLines(text))

(* candidateSitemapUrls without the .gz variants.                          *)
candidateSitemapUrlsNoGz == << SM, SMU, SMD >>

candidateSitemapUrls ==
    << SM, SMU, SMD, Append(SM, ".gz"), Append(SMD, ".gz"), Append(SMU, ".gz") >>

RECURSIVE FilterResolved(_)
(* .map(s => safeUrl(s, origin)?.toString()).filter(Boolean)               *)
FilterResolved(xs) ==
    IF xs = <<>> THEN <<>>
    ELSE LET r == safeUrl(Head(xs), Origin)
         IN  IF r = Null THEN FilterResolved(Tail(xs)) ELSE <<r>> \o FilterResolved(Tail(xs))

(* looksGzip that goes by the header alone.                                *)
looksGzipHeaderOnly(encGzip, sitemapUrl) == encGzip

(* The test of content.js:79-80; encGzip: the Content-Encoding header      *)
(* includes "gzip".                                                        *)
looksGzip(encGzip, sitemapUrl) == encGzip \/ Last(sitemapUrl) = ".gz"

RECURSIVE resolveLocs(_, _, _)
(* parseSitemapXml, the loop over the <loc> nodes: [locs, st].             *)
resolveLocs(raws, sitemapUrl, st) ==
    IF raws = <<>> THEN [locs |-> <<>>, st |-> st]
    ELSE LET raw == Head(raws)
         IN  IF raw = <<>> THEN resolveLocs(Tail(raws), sitemapUrl, st)
             ELSE LET resolved == safeUrl(raw, sitemapUrl)
                  IN  IF resolved = Null
                      THEN resolveLocs(Tail(raws), sitemapUrl,
                                       pushError(st, Diag("Invalid <loc>", sitemapUrl)))
                      ELSE LET r == resolveLocs(Tail(raws), sitemapUrl, st)
                           IN  [locs |-> <<resolved>> \o r.locs, st |-> r.st]

NotParsed(st) == [ok |-> FALSE, kind |-> "", locs |-> <<>>, st |-> st]

parseSitemapXml(xmlText, sitemapUrl, st) ==
    IF xmlText.kind = "malformed"
    THEN NotParsed(pushError(st, Diag("XML parse error", sitemapUrl)))
    ELSE LET r == resolveLocs(xmlText.locs, sitemapUrl, st)
         IN  IF xmlText.root \in {"sitemapindex", "urlset"}
             THEN [ok |-> TRUE, kind |-> xmlText.root, locs |-> r.locs, st |-> r.st]
             ELSE NotParsed(pushError(r.st, Diag("Unknown sitemap format", sitemapUrl)))

RECURSIVE urlsetLoopNoCap(_, _)
(* The urlset loop without its cap test.                                   *)
urlsetLoopNoCap(locs, st) ==
    IF locs = <<>> THEN st
    ELSE LET normalized == normalizeUrl(Head(locs))
         IN  IF normalized = Null \/ normalized \in Range(st.urls)
             THEN urlsetLoopNoCap(Tail(locs), st)
             ELSE urlsetLoopNoCap(Tail(locs), [st EXCEPT !.urls = Append(@, normalized)])

RECURSIVE urlsetLoopOffByOne(_, _)
(* The urlset loop with > for >= in its cap test.                          *)
urlsetLoopOffByOne(locs, st) ==
    IF locs = <<>> THEN st
    ELSE IF Len(st.urls) > maxUrlsStored THEN markTruncated(st)
    ELSE LET normalized == normalizeUrl(Head(locs))
         IN  IF normalized = Null \/ normalized \in Range(st.urls)
             THEN urlsetLoopOffByOne(Tail(locs), st)
             ELSE urlsetLoopOffByOne(Tail(locs), [st EXCEPT !.urls = Append(@, normalized)])

RECURSIVE urlsetLoop(_, _)
(* fetchAndParseSitemap, the loop over the locations of a urlset.          *)
urlsetLoop(locs, st) ==
    IF locs = <<>> THEN st
    ELSE IF Len(st.urls) >= maxUrlsStored THEN markTruncated(st)
    ELSE LET normalized == normalizeUrl(Head(locs))
         IN  IF normalized = Null \/ normalized \in Range(st.urls)
             THEN urlsetLoop(Tail(locs), st)
             ELSE urlsetLoop(Tail(locs), [st EXCEPT !.urls = Append(@, normalized)])

(* ---------------- state ---------------- *)
VARIABLES
    pc,       \* position of scanAndStore
    state,    \* the state object of scanAndStore (content.js:229-239)
    stack,    \* activations of fetchAndParseSitemap, innermost last
    cands,    \* uniqueCandidates
    ci,       \* index of the candidate loop
    store,    \* chrome.storage.local[originKey(origin)]
    now,      \* Date.now()
    hasDS,    \* typeof DecompressionStream: "unobserved" until the scan first
              \* evaluates it, then "function" or "undefined" for good
    parsed,   \* history: the documents parseSitemapXml accepted
    robotsRes,\* the settled robots.txt response (robotsRes and robotsText of
              \* content.js:254-258) while the candidate loop has not begun
    other,    \* position of scanAndStore in a second page
    otherOrigin, \* location.origin of the second page
    otherStore,  \* chrome.storage.local[originKey(OriginB)]
    norm,     \* an input of normalizeUrl and what came of it (NormSpec)
    popup     \* the popup's ALL_URLS, FILTERED_URLS, PAGE_INDEX, PAGE_SIZE and
              \* the text of its URL box (popup.js:439-443, 485)

vars == <<pc, state, stack, cands, ci, store, now, hasDS, parsed, robotsRes, other,
          otherOrigin, otherStore, norm, popup>>

(* chrome.storage.local at the keys of the two origins: get, set, remove.  *)
StorageGet(key) ==
    IF key = originKey(Origin) THEN store
    ELSE IF key = originKey(OriginB) THEN otherStore
    ELSE [present |-> FALSE]

StorageSet(key, record) ==
    /\ store' = IF key = originKey(Origin) THEN record ELSE store
    /\ otherStore' = IF key = originKey(OriginB) THEN record ELSE otherStore

(* StorageRemove that empties the record and leaves it in the store.       *)
StorageRemoveLeavesStamp(key) ==
    StorageSet(key, IF StorageGet(key).present
                    THEN [StorageGet(key) EXCEPT !.urls = <<>>, !.urlCount = 0,
                                                 !.found = FALSE]
                    ELSE [present |-> FALSE])

StorageRemove(key) == StorageSet(key, [present |-> FALSE])

(* No call of normalizeUrl under way.                                      *)
NoNorm == [step |-> 0, input |-> <<>>, once |-> <<>>, twice |-> <<>>]

(* ---------------- the popup's pager (popup.js) ---------------- *)
(* PAGE_SIZE as the script starts (popup.js:443), scaled down.             *)
DefaultPageSize == 2

(* The popup's script just loaded (popup.js:439-443): nothing shown.       *)
NoPopup ==
    [all |-> <<>>, filtered |-> <<>>, pageIndex |-> 0, pageSize |-> DefaultPageSize,
     shown |-> <<>>]

(* Math.ceil(a / b) for a >= 0, b > 0.                                     *)
CeilDiv(a, b) == (a + b - 1) \div b

(* totalPages (popup.js:449-451).                                          *)
totalPages(p) ==
    LET n == CeilDiv(Len(p.filtered), p.pageSize)
    IN  IF n > 1 THEN n ELSE 1

(* clampPageIndex without the upper test.                                  *)
clampPageIndexLowOnly(p) ==
    IF p.pageIndex < 0 THEN [p EXCEPT !.pageIndex = 0] ELSE p

(* clampPageIndex (popup.js:453-457).                                      *)
clampPageIndex(p) ==
    LET tp == totalPages(p)
        q == IF p.pageIndex < 0 THEN [p EXCEPT !.pageIndex = 0] ELSE p
    IN  IF q.pageIndex > tp - 1 THEN [q EXCEPT !.pageIndex = tp - 1] ELSE q

(* Array.prototype.slice(start, end) for 0 <= start <= end.                *)
Slice(xs, start, end) ==
    SubSeq(xs, start + 1, IF end < Len(xs) THEN end ELSE Len(xs))

(* renderBasic (popup.js:483-489): currentPageSlice clamps PAGE_INDEX and  *)
(* the URL box gets the slice (459-464); updatePagerUi (466-477) clamps    *)
(* again.                                                                  *)
renderBasic(p) ==
    LET q == clampPageIndex(p)
        start == q.pageIndex * q.pageSize
    IN  clampPageIndex([q EXCEPT !.shown = Slice(q.filtered, start, start + q.pageSize)])

NoRecord == [present |-> FALSE]

(* A record left by an earlier scan of the origin.                         *)
OldRecord ==
    [present |-> TRUE, found |-> FALSE, urlCount |-> 0, urls |-> <<>>, scannedAt |-> 1,
     sitemapUrl |-> Null, tried |-> <<>>, errors |-> <<Diag("old", Null)>>,
     truncated |-> FALSE]

(* A record of an earlier scan that found a page.                          *)
OldFoundRecord ==
    [present |-> TRUE, found |-> TRUE, urlCount |-> 1, urls |-> <<PQ>>, scannedAt |-> 1,
     sitemapUrl |-> UA, tried |-> <<>>, errors |-> <<>>, truncated |-> FALSE]

NoResponse == [fetch |-> "none", status |-> 0, text |-> <<>>, read |-> FALSE]

InitState ==
    [urls |-> <<>>, tried |-> <<>>, errors |-> <<>>, visitedSitemaps |-> {},
     sitemapsFetched |-> 0, primarySitemapUrl |-> Null, truncated |-> FALSE]

Init ==
    /\ pc = "start"
    /\ state = InitState
    /\ stack = <<>>
    /\ cands = <<>>
    /\ ci = 1
    /\ parsed = {}
    /\ hasDS = "unobserved"
    /\ robotsRes = NoResponse
    /\ other = "none"
    /\ otherOrigin = Origin
    /\ otherStore = NoRecord
    /\ norm = NoNorm
    /\ popup = NoPopup
    /\ \/ store = NoRecord /\ now = 1
       \/ store \in {OldRecord, OldFoundRecord} /\ now = store.scannedAt + TTL_MS - 1

Frame(url, depth) ==
    [url |-> url, sitemapUrl |-> Null, depth |-> depth, pc |-> "entry",
     enc |-> FALSE, gzip |-> FALSE, locs |-> <<>>, i |-> 1]

Top == stack[Len(stack)]

(* `return` of the innermost fetchAndParseSitemap with state st: the       *)
(* caller resumes after its await (content.js:216 or the loop at 275).     *)
Return(st) ==
    /\ state' = st
    /\ IF Len(stack) = 1
       THEN /\ stack' = <<>>
            /\ pc' = "cand"
            /\ ci' = ci + 1
       ELSE /\ stack' = [Front(stack) EXCEPT ![Len(stack) - 1].pc = "ret"]
            /\ UNCHANGED <<pc, ci>>

(* Throw that loses the URLs collected before the exception.               *)
ThrowLosesUrls(st) ==
    /\ state' = pushError([st EXCEPT !.urls = <<>>], Diag("Unexpected scan error", Null))
    /\ stack' = <<>>
    /\ pc' = "assemble"
    /\ UNCHANGED ci

(* An exception leaves every activation and lands in the catch of          *)
(* scanAndStore (content.js:282-284).                                      *)
Throw(st) ==
    /\ state' = pushError(st, Diag("Unexpected scan error", Null))
    /\ stack' = <<>>
    /\ pc' = "assemble"
    /\ UNCHANGED ci

(* isFresh with a TTL one tick shorter.                                    *)
isFreshShortTtl(record, t) ==
    record.present /\ record.scannedAt # 0 /\ t - record.scannedAt < TTL_MS - 1

(* record?.scannedAt && now() - record.scannedAt < TTL_MS (content.js:244) *)
isFresh(record, t) ==
    record.present /\ record.scannedAt # 0 /\ t - record.scannedAt < TTL_MS

(* CacheCheck that says nothing of a failed read.                          *)
CacheCheckFailSilent ==
    /\ pc = "start"
    /\ \E getOk \in BOOLEAN :
         IF ~getOk
         THEN /\ state' = state
              /\ pc' = "robots"
         ELSE /\ state' = state
              /\ pc' = IF isFresh(StorageGet(originKey(Origin)), now)
                       THEN "skipped" ELSE "robots"
    /\ UNCHANGED <<stack, cands, ci, store, now, hasDS, parsed, robotsRes, other, otherOrigin, otherStore, norm, popup>>

(* scanAndStore up to the robots.txt fetch (content.js:223-254).           *)
CacheCheck ==
    /\ pc = "start"
    /\ \E getOk \in BOOLEAN :
         IF ~getOk
         THEN /\ state' = pushError(state, Diag("Cache read failed", Null))
              /\ pc' = "robots"
         ELSE /\ state' = state
              /\ pc' = IF isFresh(StorageGet(originKey(Origin)), now)
                       THEN "skipped" ELSE "robots"
    /\ UNCHANGED <<stack, cands, ci, store, now, hasDS, parsed, robotsRes, other, otherOrigin, otherStore, norm, popup>>

RobotsOutcomes ==
    {[fetch |-> "reject", status |-> 0, text |-> <<>>, read |-> FALSE],
     [fetch |-> "ok", status |-> 404, text |-> <<>>, read |-> TRUE],
     [fetch |-> "ok", status |-> 200, text |-> <<>>, read |-> FALSE]}
    \cup {[fetch |-> "ok", status |-> 200, text |-> t, read |-> TRUE] : t \in RobotsTexts}

(* The robots.txt fetch settles (content.js:254-274).                      *)
RobotsDone ==
    /\ pc = "robots"
    /\ \E o \in RobotsOutcomes :
         LET st1 == IF o.fetch = "reject"
                    THEN pushError(pushTried(state, ROBOTS, 0, "error"),
                                   Diag("robots.txt fetch failed", Null))
                    ELSE LET t == pushTried(state, ROBOTS, o.status, "")
                         IN  IF o.status # 200
                             THEN pushError(t, Diag("robots.txt fetch failed status", Null))
                             ELSE IF ~o.read
                             THEN pushError(pushTried(t, ROBOTS, 0, "error"),
                                            Diag("robots.txt fetch failed", Null))
                             ELSE t
             robotsSitemaps ==
                 IF o.fetch = "ok" /\ o.status = 200 /\ o.read
                 THEN FilterResolved(parseRobotsForSitemaps(o.text))
                 ELSE <<>>
             sitemapCandidates ==
                 IF Len(robotsSitemaps) > 0 THEN robotsSitemaps ELSE candidateSitemapUrls
         IN  /\ state' = st1
             /\ cands' = Dedup(sitemapCandidates)
             /\ robotsRes' = o
    /\ pc' = "cand"
    /\ ci' = 1
    /\ UNCHANGED <<stack, store, now, hasDS, parsed, other, otherOrigin, otherStore, norm, popup>>

(* CandidateLoop that ends once a candidate has produced URLs.             *)
CandidateLoopUntilFound ==
    /\ pc = "cand"
    /\ IF ci > Len(cands) \/ state.urls # <<>>
       THEN /\ pc' = "assemble"
            /\ UNCHANGED <<state, stack>>
       ELSE IF state.sitemapsFetched >= maxSitemapsFetched
       THEN /\ state' = pushError(state, Diag("Max sitemaps fetched reached", Null))
            /\ pc' = "assemble"
            /\ UNCHANGED stack
       ELSE /\ stack' = <<Frame(cands[ci], 0)>>
            /\ pc' = "crawl"
            /\ UNCHANGED state
    /\ robotsRes' = NoResponse
    /\ UNCHANGED <<cands, ci, store, now, hasDS, parsed, other, otherOrigin, otherStore, norm, popup>>

(* Head of the candidate loop (content.js:275-280).                        *)
CandidateLoop ==
    /\ pc = "cand"
    /\ IF ci > Len(cands)
       THEN /\ pc' = "assemble"
            /\ UNCHANGED <<state, stack>>
       ELSE IF state.sitemapsFetched >= maxSitemapsFetched
       THEN /\ state' = pushError(state, Diag("Max sitemaps fetched reached", Null))
            /\ pc' = "assemble"
            /\ UNCHANGED stack
       ELSE /\ stack' = <<Frame(cands[ci], 0)>>
            /\ pc' = "crawl"
            /\ UNCHANGED state
    /\ robotsRes' = NoResponse
    /\ UNCHANGED <<cands, ci, store, now, hasDS, parsed, other, otherOrigin, otherStore, norm, popup>>

(* markVisited that leaves the counter alone.                              *)
markVisitedNoCount(st, sitemapUrl) ==
    [st EXCEPT !.visitedSitemaps = @ \cup {sitemapUrl}]

(* The sitemap is entered in the visited set and counted                   *)
(* (content.js:160-161).                                                   *)
markVisited(st, sitemapUrl) ==
    [st EXCEPT !.visitedSitemaps = @ \cup {sitemapUrl}, !.sitemapsFetched = @ + 1]

(* FetchStart that reports a visited sitemap.                              *)
FetchStartVisitedDiag ==
    /\ pc = "crawl"
    /\ Top.pc = "entry"
    /\ LET f == Top
           sitemapUrl == safeUrl(f.url, Origin)
       IN  IF f.depth > maxDepth
           THEN Return(pushError(state, Diag("Max sitemap depth exceeded", f.url)))
           ELSE IF sitemapUrl = Null
           THEN Return(pushTried(pushError(state, Diag("Invalid sitemap URL", f.url)),
                                 f.url, 0, "invalid-url"))
           ELSE IF sitemapUrl \in state.visitedSitemaps
           THEN Return(pushError(state, Diag("Sitemap already visited", sitemapUrl)))
           ELSE IF state.sitemapsFetched >= maxSitemapsFetched
           THEN Return(pushError(state, Diag("Max sitemaps fetched reached", Null)))
           ELSE /\ state' = markVisited(state, sitemapUrl)
                /\ stack' = [stack EXCEPT ![Len(stack)].sitemapUrl = sitemapUrl,
                                          ![Len(stack)].pc = "fetch"]
                /\ UNCHANGED <<pc, ci>>
    /\ UNCHANGED <<cands, store, now, hasDS, parsed, robotsRes, other, otherOrigin, otherStore, norm, popup>>

(* FetchStart without the visitedSitemaps test.                            *)
FetchStartNoVisited ==
    /\ pc = "crawl"
    /\ Top.pc = "entry"
    /\ LET f == Top
           sitemapUrl == safeUrl(f.url, Origin)
       IN  IF f.depth > maxDepth
           THEN Return(pushError(state, Diag("Max sitemap depth exceeded", f.url)))
           ELSE IF sitemapUrl = Null
           THEN Return(pushTried(pushError(state, Diag("Invalid sitemap URL", f.url)),
                                 f.url, 0, "invalid-url"))
           ELSE IF state.sitemapsFetched >= maxSitemapsFetched
           THEN Return(pushError(state, Diag("Max sitemaps fetched reached", Null)))
           ELSE /\ state' = markVisited(state, sitemapUrl)
                /\ stack' = [stack EXCEPT ![Len(stack)].sitemapUrl = sitemapUrl,
                                          ![Len(stack)].pc = "fetch"]
                /\ UNCHANGED <<pc, ci>>
    /\ UNCHANGED <<cands, store, now, hasDS, parsed, robotsRes, other, otherOrigin, otherStore, norm, popup>>

(* fetchAndParseSitemap from its entry to the fetch (content.js:141-166).  *)
FetchStart ==
    /\ pc = "crawl"
    /\ Top.pc = "entry"
    /\ LET f == Top
           sitemapUrl == safeUrl(f.url, Origin)
       IN  IF f.depth > maxDepth
           THEN Return(pushError(state, Diag("Max sitemap depth exceeded", f.url)))
           ELSE IF sitemapUrl = Null
           THEN Return(pushTried(pushError(state, Diag("Invalid sitemap URL", f.url)),
                                 f.url, 0, "invalid-url"))
           ELSE IF sitemapUrl \in state.visitedSitemaps
           THEN Return(state)
           ELSE IF state.sitemapsFetched >= maxSitemapsFetched
           THEN Return(pushError(state, Diag("Max sitemaps fetched reached", Null)))
           ELSE /\ state' = markVisited(state, sitemapUrl)
                /\ stack' = [stack EXCEPT ![Len(stack)].sitemapUrl = sitemapUrl,
                                          ![Len(stack)].pc = "fetch"]
                /\ UNCHANGED <<pc, ci>>
    /\ UNCHANGED <<cands, store, now, hasDS, parsed, robotsRes, other, otherOrigin, otherStore, norm, popup>>

FetchOutcomes ==
    {[fetch |-> "reject", status |-> 0, encGzip |-> FALSE],
     [fetch |-> "ok", status |-> 404, encGzip |-> FALSE],
     [fetch |-> "ok", status |-> 200, encGzip |-> FALSE],
     [fetch |-> "ok", status |-> 200, encGzip |-> TRUE]}

(* FetchDone that leaves no tried entry for a transport failure.           *)
FetchDoneRejectUntried ==
    /\ pc = "crawl"
    /\ Top.pc = "fetch"
    /\ \E o \in FetchOutcomes :
         LET f == Top
         IN  IF o.fetch = "reject"
             THEN Return(pushError(state, Diag("Fetch failed", f.sitemapUrl)))
             ELSE IF o.status # 200
             THEN Return(pushError(pushTried(state, f.sitemapUrl, o.status, ""),
                                   Diag("Sitemap fetch failed status", f.sitemapUrl)))
             ELSE /\ state' = pushTried(state, f.sitemapUrl, o.status, "")
                  /\ stack' = [stack EXCEPT ![Len(stack)].pc = "body",
                                            ![Len(stack)].enc = o.encGzip,
                                            ![Len(stack)].gzip =
                                                looksGzip(o.encGzip, f.sitemapUrl)]
                  /\ UNCHANGED <<pc, ci>>
    /\ UNCHANGED <<cands, store, now, hasDS, parsed, robotsRes, other, otherOrigin, otherStore, norm, popup>>

(* The sitemap fetch settles; on 2xx the body read starts                  *)
(* (content.js:164-179, 78-95).                                            *)
FetchDone ==
    /\ pc = "crawl"
    /\ Top.pc = "fetch"
    /\ \E o \in FetchOutcomes :
         LET f == Top
         IN  IF o.fetch = "reject"
             THEN Return(pushError(pushTried(state, f.sitemapUrl, 0, "error"),
                                   Diag("Fetch failed", f.sitemapUrl)))
             ELSE IF o.status # 200
             THEN Return(pushError(pushTried(state, f.sitemapUrl, o.status, ""),
                                   Diag("Sitemap fetch failed status", f.sitemapUrl)))
             ELSE /\ state' = pushTried(state, f.sitemapUrl, o.status, "")
                  /\ stack' = [stack EXCEPT ![Len(stack)].pc = "body",
                                            ![Len(stack)].enc = o.encGzip,
                                            ![Len(stack)].gzip =
                                                looksGzip(o.encGzip, f.sitemapUrl)]
                  /\ UNCHANGED <<pc, ci>>
    /\ UNCHANGED <<cands, store, now, hasDS, parsed, robotsRes, other, otherOrigin, otherStore, norm, popup>>

BodyOutcomes ==
    {[read |-> FALSE, gunzip |-> FALSE, text |-> EmptyText],
     [read |-> TRUE, gunzip |-> FALSE, text |-> MalformedText]}
    \cup {[read |-> TRUE, gunzip |-> TRUE, text |-> t] : t \in XmlTexts}

(* responseToSitemapText (content.js:78-100): [ok, text, st]; ok = FALSE   *)
(* is the rejection of the promise.  o.read: the body arrives; o.gunzip:   *)
(* the bytes are a gzip stream of o.text (else o.text is the bytes read as *)
(* text).                                                                  *)
responseToSitemapText(o, gzip, sitemapUrl, ds, st) ==
    IF ~gzip
    THEN [ok |-> o.read, text |-> o.text, st |-> st]
    ELSE IF ~ds
    THEN [ok |-> TRUE, text |-> EmptyText,
          st |-> pushError(st, Diag("Cannot parse gzip sitemap", sitemapUrl))]
    ELSE IF ~o.read \/ ~o.gunzip
    THEN [ok |-> TRUE, text |-> EmptyText,
          st |-> pushError(st, Diag("Failed to decompress gzip sitemap", sitemapUrl))]
    ELSE [ok |-> TRUE, text |-> o.text, st |-> st]

ParsedDoc(f, p) ==
    [url |-> f.sitemapUrl, depth |-> f.depth, kind |-> p.kind, locs |-> p.locs]

(* setPrimary that overwrites an earlier value.                            *)
setPrimaryAlways(st, sitemapUrl) == [st EXCEPT !.primarySitemapUrl = sitemapUrl]

(* The first successful parse names the primary sitemap (content.js:185).  *)
setPrimary(st, sitemapUrl) ==
    IF st.primarySitemapUrl = Null
    THEN [st EXCEPT !.primarySitemapUrl = sitemapUrl]
    ELSE st

(* depthReached with > for >=.                                             *)
depthReachedOffByOne(depth) == depth > maxDepth

(* The depth check of a parsed index (content.js:203).                     *)
depthReached(depth) == depth >= maxDepth

(* The body read settles: decode, parse, then the urlset loop or the depth *)
(* check of an index (content.js:179-206).                                 *)
BodyDone ==
    /\ pc = "crawl"
    /\ Top.pc = "body"
    /\ \E o \in BodyOutcomes, ds \in {"function", "undefined"} :
         LET f == Top
             d == responseToSitemapText(o, f.gzip, f.sitemapUrl, ds = "function", state)
             p == parseSitemapXml(d.text, f.sitemapUrl, d.st)
             st1 == setPrimary(p.st, f.sitemapUrl)
         IN  /\ hasDS \in {"unobserved", ds}
             /\ hasDS' = IF f.gzip THEN ds ELSE hasDS
             /\ IF ~d.ok
                THEN Throw(d.st) /\ UNCHANGED parsed
                ELSE IF d.text.kind = "empty"
                THEN Return(d.st) /\ UNCHANGED parsed
                ELSE IF ~p.ok
                THEN Return(p.st) /\ UNCHANGED parsed
                ELSE /\ parsed' = parsed \cup {ParsedDoc(f, p)}
                     /\ IF p.kind = "urlset"
                        THEN Return(urlsetLoop(p.locs, st1))
                        ELSE IF depthReached(f.depth)
                        THEN Return(pushError(st1, Diag("Max sitemap recursion depth reached",
                                                        f.sitemapUrl)))
                        ELSE /\ state' = st1
                             /\ stack' = [stack EXCEPT ![Len(stack)].pc = "loop",
                                                       ![Len(stack)].locs = p.locs,
                                                       ![Len(stack)].i = 1]
                             /\ UNCHANGED <<pc, ci>>
    /\ UNCHANGED <<cands, store, now, robotsRes, other, otherOrigin, otherStore, norm, popup>>

(* ChildLoop that stops at the ceiling without a diagnostic.               *)
ChildLoopSilent ==
    /\ pc = "crawl"
    /\ Top.pc = "loop"
    /\ LET f == Top
       IN  IF f.i > Len(f.locs)
           THEN Return(state)
           ELSE IF state.sitemapsFetched >= maxSitemapsFetched
           THEN Return(state)
           ELSE /\ stack' = Append(stack, Frame(f.locs[f.i], f.depth + 1))
                /\ UNCHANGED <<state, pc, ci>>
    /\ UNCHANGED <<cands, store, now, hasDS, parsed, robotsRes, other, otherOrigin, otherStore, norm, popup>>

(* Head of the loop over the children of an index (content.js:208-214).    *)
ChildLoop ==
    /\ pc = "crawl"
    /\ Top.pc = "loop"
    /\ LET f == Top
       IN  IF f.i > Len(f.locs)
           THEN Return(state)
           ELSE IF state.sitemapsFetched >= maxSitemapsFetched
           THEN Return(pushError(state, Diag("Max sitemaps fetched reached", Null)))
           ELSE /\ stack' = Append(stack, Frame(f.locs[f.i], f.depth + 1))
                /\ UNCHANGED <<state, pc, ci>>
    /\ UNCHANGED <<cands, store, now, hasDS, parsed, robotsRes, other, otherOrigin, otherStore, norm, popup>>

(* ChildReturn that does not advance to the next child.                    *)
ChildReturnSameChild ==
    /\ pc = "crawl"
    /\ Top.pc = "ret"
    /\ IF Len(state.urls) >= maxUrlsStored
       THEN Return(markTruncated(state))
       ELSE /\ stack' = [stack EXCEPT ![Len(stack)].pc = "loop"]
            /\ UNCHANGED <<state, pc, ci>>
    /\ UNCHANGED <<cands, store, now, hasDS, parsed, robotsRes, other, otherOrigin, otherStore, norm, popup>>

(* ChildReturn that ends the iteration after any child.                    *)
ChildReturnBreaks ==
    /\ pc = "crawl"
    /\ Top.pc = "ret"
    /\ IF Len(state.urls) >= maxUrlsStored
       THEN Return(markTruncated(state))
       ELSE Return(state)
    /\ UNCHANGED <<cands, store, now, hasDS, parsed, robotsRes, other, otherOrigin, otherStore, norm, popup>>

(* ChildReturn that passes over the next child.                            *)
ChildReturnSkipsOne ==
    /\ pc = "crawl"
    /\ Top.pc = "ret"
    /\ IF Len(state.urls) >= maxUrlsStored
       THEN Return(markTruncated(state))
       ELSE /\ stack' = [stack EXCEPT ![Len(stack)].pc = "loop",
                                      ![Len(stack)].i = @ + 2]
            /\ UNCHANGED <<state, pc, ci>>
    /\ UNCHANGED <<cands, store, now, hasDS, parsed, robotsRes, other, otherOrigin, otherStore, norm, popup>>

(* A child returned: the cap check that ends the iteration                 *)
(* (content.js:216-220).                                                   *)
ChildReturn ==
    /\ pc = "crawl"
    /\ Top.pc = "ret"
    /\ IF Len(state.urls) >= maxUrlsStored
       THEN Return(markTruncated(state))
       ELSE /\ stack' = [stack EXCEPT ![Len(stack)].pc = "loop",
                                      ![Len(stack)].i = @ + 1]
            /\ UNCHANGED <<state, pc, ci>>
    /\ UNCHANGED <<cands, store, now, hasDS, parsed, robotsRes, other, otherOrigin, otherStore, norm, popup>>

Min(a, b) == IF a < b THEN a ELSE b

(* Record that names the primary sitemap whether or not URLs were found.   *)
RecordNamesPrimary(st, t) ==
    LET urls == SubSeq(st.urls, 1, Min(Len(st.urls), maxUrlsStored))
        found == Len(urls) > 0
    IN  [present |-> TRUE, found |-> found, urlCount |-> Len(urls), urls |-> urls,
         scannedAt |-> t, sitemapUrl |-> st.primarySitemapUrl,
         tried |-> st.tried, errors |-> st.errors, truncated |-> st.truncated]

(* Record with a slice one short of the cap.                               *)
RecordOneShort(st, t) ==
    LET urls == SubSeq(st.urls, 1, Min(Len(st.urls), maxUrlsStored - 1))
        found == Len(urls) > 0
    IN  [present |-> TRUE, found |-> found, urlCount |-> Len(urls), urls |-> urls,
         scannedAt |-> t, sitemapUrl |-> IF found THEN st.primarySitemapUrl ELSE Null,
         tried |-> st.tried, errors |-> st.errors, truncated |-> st.truncated]

(* The record scanAndStore writes (content.js:286-301).                    *)
Record(st, t) ==
    LET urls == SubSeq(st.urls, 1, Min(Len(st.urls), maxUrlsStored))
        found == Len(urls) > 0
    IN  [present |-> TRUE, found |-> found, urlCount |-> Len(urls), urls |-> urls,
         scannedAt |-> t, sitemapUrl |-> IF found THEN st.primarySitemapUrl ELSE Null,
         tried |-> st.tried, errors |-> st.errors, truncated |-> st.truncated]

(* StoreWrite that adds its URLs to those of the record in the store.      *)
StoreWriteMerges ==
    /\ pc = "assemble"
    /\ StorageSet(originKey(Origin),
                  IF store.present
                  THEN [Record(state, now) EXCEPT !.urls = store.urls \o @]
                  ELSE Record(state, now))
    /\ pc' = "done"
    /\ UNCHANGED <<state, stack, cands, ci, now, hasDS, parsed, robotsRes, other,
                   otherOrigin, norm, popup>>

(* The end of scanAndStore (content.js:286-302).                           *)
StoreWrite ==
    /\ pc = "assemble"
    /\ StorageSet(originKey(Origin), Record(state, now))
    /\ pc' = "done"
    /\ UNCHANGED <<state, stack, cands, ci, now, hasDS, parsed, robotsRes, other,
                   otherOrigin, norm, popup>>

Next ==
    \/ CacheCheck
    \/ RobotsDone
    \/ CandidateLoop
    \/ FetchStart
    \/ FetchDone
    \/ BodyDone
    \/ ChildLoop
    \/ ChildReturn
    \/ StoreWrite

Spec == Init /\ [][Next]_vars

(* Every pending continuation of the scan is eventually run by the event   *)
(* loop, and every fetch settles.                                          *)
FairSpec == Spec /\ WF_vars(Next)

(* ---------------- a second page of the same origin ---------------- *)
(* The other page's scanAndStore reads the store (content.js:241-247).     *)
OtherCheck ==
    /\ other = "start"
    /\ \E getOk \in BOOLEAN :
         other' = IF getOk /\ isFresh(StorageGet(originKey(otherOrigin)), now)
                  THEN "skipped" ELSE "crawl"
    /\ UNCHANGED <<pc, state, stack, cands, ci, store, now, hasDS, parsed, robotsRes,
                   otherOrigin, otherStore, norm, popup>>

(* The record of the other page's scan: its crawl got its own responses.   *)
OtherRecord == [OldFoundRecord EXCEPT !.scannedAt = now]

(* The other page's scanAndStore writes its record (content.js:289-302);   *)
(* its crawl in between touches nothing the two pages share.               *)
OtherWrite ==
    /\ other = "crawl"
    /\ StorageSet(originKey(otherOrigin), OtherRecord)
    /\ other' = "done"
    /\ UNCHANGED <<pc, state, stack, cands, ci, now, hasDS, parsed, robotsRes,
                   otherOrigin, norm, popup>>

(* ---------------- the popup's cache-clear ---------------- *)
(* A page loads while the store holds a record of its origin written less  *)
(* than TTL_MS ago, and a record of another origin.                        *)
ClearInit ==
    /\ pc = "start"
    /\ state = InitState
    /\ stack = <<>>
    /\ cands = <<>>
    /\ ci = 1
    /\ parsed = {}
    /\ hasDS = "unobserved"
    /\ robotsRes = NoResponse
    /\ other = "none"
    /\ otherOrigin = Origin
    /\ norm = NoNorm
    /\ popup = NoPopup
    /\ store = OldFoundRecord
    /\ otherStore = OldRecord
    /\ now \in store.scannedAt .. store.scannedAt + TTL_MS - 1

(* The click handler of the popup's refresh button (popup.js:701-715):     *)
(* the record of the active tab's origin is removed from the store.        *)
ClearCache ==
    /\ \E origin \in {Origin, OriginB} : StorageRemove(originKey(origin))
    /\ popup' = renderBasic([popup EXCEPT !.all = <<>>, !.filtered = <<>>, !.pageIndex = 0])
    /\ UNCHANGED <<pc, state, stack, cands, ci, now, hasDS, parsed, robotsRes, other,
                   otherOrigin, norm>>

ClearNext ==
    \/ Next
    \/ ClearCache

ClearSpec == ClearInit /\ [][ClearNext]_vars

(* ---------------- the popup and its pager ---------------- *)
MaxPopupUrls == 5
MaxPageSize == 3

(* The URLs of a stored record, as many as n.                              *)
PopupUrls(n) == [k \in 1..n |-> <<"/u", ToString(k)>>]

(* A record an earlier scan left with n URLs.                              *)
PopupRecord(n) ==
    [OldFoundRecord EXCEPT !.urls = PopupUrls(n), !.urlCount = n, !.found = n > 0,
                           !.sitemapUrl = IF n > 0 THEN UA ELSE Null]

(* The values the page-size control can hold; 0 stands for every value     *)
(* Number() turns into 0 or NaN.                                           *)
PageSizeValues == 0..MaxPageSize

(* Number(value) || 200 (popup.js:566, 631).                               *)
pageSizeOf(value) == IF value = 0 THEN DefaultPageSize ELSE value

(* The filters of the form: each keeps some of the URLs.                   *)
PopupFilters == SUBSET Range(PopupUrls(MaxPopupUrls))

(* applyFilters (popup.js:387-412) with a filter that keeps the URLs in    *)
(* keep.                                                                   *)
applyFilters(allUrls, keep) == SelectSeq(allUrls, LAMBDA u : u \in keep)

PopupInit ==
    /\ pc = "start"
    /\ state = InitState
    /\ stack = <<>>
    /\ cands = <<>>
    /\ ci = 1
    /\ parsed = {}
    /\ hasDS = "unobserved"
    /\ robotsRes = NoResponse
    /\ other = "none"
    /\ otherOrigin = Origin
    /\ otherStore = NoRecord
    /\ norm = NoNorm
    /\ now = 1
    /\ store \in {NoRecord} \cup {PopupRecord(n) : n \in 0..MaxPopupUrls}
    /\ popup = NoPopup

(* run (popup.js:511-585): the popup opens on a tab of the origin, reads   *)
(* the record and renders its first page; without a record it renders the  *)
(* empty list and leaves PAGE_SIZE alone.                                  *)
PopupRun ==
    /\ \E value \in PageSizeValues :
         LET REC == StorageGet(originKey(Origin))
         IN  popup' = IF REC.present
                      THEN renderBasic([NoPopup EXCEPT !.all = REC.urls,
                                                       !.filtered = REC.urls,
                                                       !.pageSize = pageSizeOf(value)])
                      ELSE renderBasic(NoPopup)
    /\ UNCHANGED <<pc, state, stack, cands, ci, store, now, hasDS, parsed, robotsRes,
                   other, otherOrigin, otherStore, norm>>

(* The click handler of "apply" (popup.js:605-613).                        *)
ApplyFilter ==
    /\ \E keep \in PopupFilters :
         popup' = renderBasic([popup EXCEPT !.filtered = applyFilters(popup.all, keep),
                                            !.pageIndex = 0])
    /\ UNCHANGED <<pc, state, stack, cands, ci, store, now, hasDS, parsed, robotsRes,
                   other, otherOrigin, otherStore, norm>>

(* The click handler of "clear" (popup.js:615-627).                        *)
ClearFilter ==
    /\ popup' = renderBasic([popup EXCEPT !.filtered = popup.all, !.pageIndex = 0])
    /\ UNCHANGED <<pc, state, stack, cands, ci, store, now, hasDS, parsed, robotsRes,
                   other, otherOrigin, otherStore, norm>>

(* The change handler of the page-size control (popup.js:630-634).         *)
PageSizeChange ==
    /\ \E value \in PageSizeValues :
         popup' = renderBasic([popup EXCEPT !.pageSize = pageSizeOf(value),
                                            !.pageIndex = 0])
    /\ UNCHANGED <<pc, state, stack, cands, ci, store, now, hasDS, parsed, robotsRes,
                   other, otherOrigin, otherStore, norm>>

(* The click handler of "previous page" (popup.js:636-639).  A click can   *)
(* come before the first render has disabled the button.                   *)
PrevPage ==
    /\ popup' = renderBasic([popup EXCEPT !.pageIndex = @ - 1])
    /\ UNCHANGED <<pc, state, stack, cands, ci, store, now, hasDS, parsed, robotsRes,
                   other, otherOrigin, otherStore, norm>>

(* The click handler of "next page" (popup.js:641-644).                    *)
NextPage ==
    /\ popup' = renderBasic([popup EXCEPT !.pageIndex = @ + 1])
    /\ UNCHANGED <<pc, state, stack, cands, ci, store, now, hasDS, parsed, robotsRes,
                   other, otherOrigin, otherStore, norm>>

PopupNext ==
    \/ PopupRun
    \/ ApplyFilter
    \/ ClearFilter
    \/ PageSizeChange
    \/ PrevPage
    \/ NextPage
    \/ ClearCache

PopupSpec == PopupInit /\ [][PopupNext]_vars

(* ---------------- normalizeUrl applied to its own result ---------------- *)
MaxNormLen == 3
NormTokens == {"/p", "/q", "/index.html", "/", "["}
(* The inputs of normalizeUrl: every URL of up to MaxNormLen tokens.       *)
NormInputs == SeqsUpTo(NormTokens, MaxNormLen)

NormInit ==
    /\ pc = "start"
    /\ state = InitState
    /\ stack = <<>>
    /\ cands = <<>>
    /\ ci = 1
    /\ parsed = {}
    /\ hasDS = "unobserved"
    /\ robotsRes = NoResponse
    /\ other = "none"
    /\ otherOrigin = Origin
    /\ otherStore = NoRecord
    /\ store = NoRecord
    /\ now = 1
    /\ \E u \in NormInputs : norm = [NoNorm EXCEPT !.input = u]
    /\ popup = NoPopup

(* normalizeUrl is called on the input (content.js:45-54).                 *)
NormalizeOnce ==
    /\ norm.step = 0
    /\ norm' = [norm EXCEPT !.step = 1, !.once = normalizeUrl(norm.input)]
    /\ UNCHANGED <<pc, state, stack, cands, ci, store, now, hasDS, parsed, robotsRes,
                   other, otherOrigin, otherStore, popup>>

(* normalizeUrl is called on the string the first call returned.           *)
NormalizeTwice ==
    /\ norm.step = 1
    /\ norm.once # Null
    /\ norm' = [norm EXCEPT !.step = 2, !.twice = normalizeUrl(norm.once)]
    /\ UNCHANGED <<pc, state, stack, cands, ci, store, now, hasDS, parsed, robotsRes,
                   other, otherOrigin, otherStore, popup>>

NormNext ==
    \/ NormalizeOnce
    \/ NormalizeTwice

NormSpec == NormInit /\ [][NormNext]_vars

(* The page is closed or leaves for another document while its scan is     *)
(* under way: the context of the script is gone with all it held, and the  *)
(* pending continuations never run.                                        *)
Teardown ==
    /\ pc \in {"start", "robots", "cand", "crawl", "assemble"}
    /\ pc' = "gone"
    /\ state' = InitState
    /\ stack' = <<>>
    /\ cands' = <<>>
    /\ ci' = 1
    /\ parsed' = {}
    /\ robotsRes' = NoResponse
    /\ hasDS' = "unobserved"
    /\ UNCHANGED <<store, now, other, otherOrigin, otherStore, norm, popup>>

(* Two pages, of one origin or of two, load at the same time while the     *)
(* store has no record.                                                    *)
RaceInit ==
    /\ pc = "start"
    /\ state = InitState
    /\ stack = <<>>
    /\ cands = <<>>
    /\ ci = 1
    /\ parsed = {}
    /\ hasDS = "unobserved"
    /\ robotsRes = NoResponse
    /\ other = "start"
    /\ otherOrigin \in {Origin, OriginB}
    /\ otherStore = NoRecord
    /\ norm = NoNorm
    /\ popup = NoPopup
    /\ store = NoRecord
    /\ now = 1

RaceNext ==
    \/ Next
    \/ OtherCheck
    \/ OtherWrite
    \/ Teardown

RaceSpec == RaceInit /\ [][RaceNext]_vars

TypeOK ==
    /\ pc \in {"start", "skipped", "robots", "cand", "crawl", "assemble", "done", "gone"}
    /\ state.sitemapsFetched \in Nat
    /\ hasDS \in {"unobserved", "function", "undefined"}
    /\ other \in {"none", "start", "skipped", "crawl", "done"}

(* ---------------- vocabulary of the properties ---------------- *)
MaxFetchedDiag == Diag("Max sitemaps fetched reached", Null)
HasError(errors, msg) == \E i \in 1..Len(errors) : errors[i].msg = msg
NormalizedLocs(d) == {normalizeUrl(l) : l \in Range(d.locs)}
Urlsets == {d \in parsed : d.kind = "urlset"}
Indexes == {d \in parsed : d.kind = "sitemapindex"}
TriedCount(u) == Cardinality({i \in 1..Len(state.tried) : state.tried[i].url = u})
CeilingHit == state.sitemapsFetched >= maxSitemapsFetched
CapHit == Len(state.urls) >= maxUrlsStored

(* C1: in every reachable state of a scan the number of distinct URLs in   *)
(* state.urls is at most limits.maxUrlsStored.                             *)
C1_UrlsWithinCap == Cardinality(Range(state.urls)) <= maxUrlsStored

(* The cap is reached and a further location was turned away.              *)
C1_Witness == Cardinality(Range(state.urls)) = maxUrlsStored /\ state.truncated

(* A loop of scanAndStore or fetchAndParseSitemap stands before a pending  *)
(* candidate or child.                                                     *)
PendingNext ==
    \/ pc = "cand" /\ ci <= Len(cands)
    \/ pc = "crawl" /\ Top.pc = "loop" /\ Top.i <= Len(Top.locs)

FetchIssued == pc = "crawl" /\ Top.pc = "entry" /\ pc' = "crawl" /\ Len(stack') = Len(stack)
                 /\ stack'[Len(stack')].pc = "fetch"

(* C2: sitemapsFetched never exceeds limits.maxSitemapsFetched, over all   *)
(* candidates and index branches together; no fetch is issued once the     *)
(* counter is at the ceiling; and the step that skips a pending child or   *)
(* candidate because of the ceiling appends the 'max sitemaps fetched'     *)
(* diagnostic.                                                             *)
C2_FetchCeiling ==
    [][ /\ state'.sitemapsFetched <= maxSitemapsFetched
        /\ Cardinality(state'.visitedSitemaps) <= maxSitemapsFetched
        /\ FetchIssued => state.sitemapsFetched < maxSitemapsFetched
        /\ (PendingNext /\ CeilingHit) =>
               /\ state'.errors = Append(state.errors, MaxFetchedDiag)
               /\ stack' = <<>> \/ Len(stack') < Len(stack)
      ]_vars

(* The ceiling is reached inside an index and its pending child skipped.   *)
C2_Witness ==
    /\ state.sitemapsFetched = maxSitemapsFetched
    /\ pc = "cand"
    /\ state.errors # <<>>
    /\ Last(state.errors) = MaxFetchedDiag

(* C3: within one scan no sitemap URL is fetched more than once, whatever  *)
(* the sitemap graph: every member of visitedSitemaps has at most one      *)
(* entry in tried.                                                         *)
C3_FetchedOnce == \A u \in state.visitedSitemaps : TriedCount(u) <= 1

(* A finished scan that walked the children of an index naming itself.     *)
C3_Witness ==
    /\ pc = "done"
    /\ \E d \in Indexes : d.depth < maxDepth /\ d.url \in Range(d.locs)
                            /\ Range(d.locs) \subseteq state.visitedSitemaps

(* C4: every scan that starts crawling eventually finishes with the record *)
(* write, after at most maxSitemapsFetched sitemap fetches.                *)
C4_ScanTerminates ==
    (pc = "robots") ~>
        (/\ pc = "done"
         /\ store = Record(state, now)
         /\ state.sitemapsFetched <= maxSitemapsFetched)

(* A finished scan that spent the whole fetch budget on a self-naming      *)
(* index.                                                                  *)
C4_Witness ==
    /\ pc = "done"
    /\ state.sitemapsFetched = maxSitemapsFetched
    /\ \E d \in Indexes : d.url \in Range(d.locs)

(* C5: no sitemap is fetched or parsed at a depth above maxDepth, and an   *)
(* index parsed at depth maxDepth leaves a depth diagnostic in errors (its *)
(* children are not called).                                               *)
C5_DepthLimit ==
    /\ \A i \in 1..Len(stack) : stack[i].pc # "entry" => stack[i].depth <= maxDepth
    /\ \A d \in parsed : d.depth <= maxDepth
    /\ \A d \in Indexes : d.depth = maxDepth =>
           /\ Diag("Max sitemap recursion depth reached", d.url) \in Range(state.errors)
           /\ \A i \in 1..Len(stack) : stack[i].depth <= maxDepth

(* An index with children was parsed at depth maxDepth.                    *)
C5_Witness == \E d \in Indexes : d.depth = maxDepth /\ d.locs # <<>>

(* C6: at the end of a scan every location of every parsed urlset is in    *)
(* the record's urls, in normalized form and once, unless truncated is     *)
(* true.                                                                   *)
C6_NoSilentDrop ==
    pc = "done" =>
        /\ Len(store.urls) = Cardinality(Range(store.urls))
        /\ ~store.truncated =>
               \A d \in Urlsets : NormalizedLocs(d) \subseteq Range(store.urls)

(* A finished, untruncated scan with two urlsets and a full urls.          *)
C6_Witness ==
    /\ pc = "done"
    /\ ~store.truncated
    /\ Cardinality(Urlsets) >= 2
    /\ Len(store.urls) = maxUrlsStored

(* C7: in every completed scan, if the number of stored URLs equals        *)
(* limits.maxUrlsStored then the persisted record has truncated = true.    *)
C7_TruncatedAtCap ==
    (pc = "done" /\ store.urlCount = maxUrlsStored) => store.truncated

Distinct(l) == \A i, j \in 1..Len(l) : l[i] = l[j] => i = j
FirstNormalized(l, k) == [i \in 1..k |-> normalizeUrl(l[i])]

(* C8 as stated: a urlset with n pairwise different resolvable locations,  *)
(* processed when urls is empty under maxUrlsStored = k < n, leaves        *)
(* exactly the first k locations in urls and sets truncated.               *)
C8_DistinctLocations ==
    [][ \A d \in (parsed' \ parsed) :
          (/\ d.kind = "urlset"
           /\ state.urls = <<>>
           /\ Distinct(d.locs)
           /\ Len(d.locs) > maxUrlsStored)
          => /\ state'.urls = FirstNormalized(d.locs, maxUrlsStored)
             /\ state'.truncated
      ]_vars

(* C8, amended: a urlset with n locations whose normalized forms are       *)
(* pairwise different, processed when urls is empty under                  *)
(* maxUrlsStored = k < n, leaves exactly the first k locations             *)
(* (normalized) in urls and sets truncated.                                *)
C8_DistinctNormalized ==
    [][ \A d \in (parsed' \ parsed) :
          (/\ d.kind = "urlset"
           /\ state.urls = <<>>
           /\ Cardinality(NormalizedLocs(d)) = Len(d.locs)
           /\ Len(d.locs) > maxUrlsStored)
          => /\ state'.urls = FirstNormalized(d.locs, maxUrlsStored)
             /\ state'.truncated
      ]_vars

(* The first parsed document is such a urlset and it has been processed.   *)
C8_Witness ==
    \E d \in parsed :
        /\ parsed = {d}
        /\ d.kind = "urlset"
        /\ Cardinality(NormalizedLocs(d)) = Len(d.locs)
        /\ Len(d.locs) > maxUrlsStored
        /\ Len(state.urls) = maxUrlsStored
        /\ state.truncated

(* C9: a failure of one sitemap node stops only that branch: at the end of *)
(* a scan that reached neither the fetch ceiling nor the URL cap, every    *)
(* top-level candidate and every child of every index parsed above         *)
(* maxDepth has been fetched.                                              *)
C9_FailureStopsOnlyBranch ==
    (pc = "done" /\ ~CeilingHit /\ ~CapHit) =>
        /\ Range(cands) \subseteq state.visitedSitemaps
        /\ \A d \in Indexes :
               d.depth < maxDepth => Range(d.locs) \subseteq state.visitedSitemaps

(* C10: in every persisted record of a completed scan, found = false       *)
(* implies that errors is non-empty.                                       *)
C10_EmptyResultHasDiagnostics ==
    (pc = "done" /\ ~store.found) => store.errors # <<>>

(* The innermost fetchAndParseSitemap returns or is left by an exception.  *)
BranchStops == stack' = <<>> \/ Len(stack') < Len(stack)

(* C11: whenever a sitemap whose fetch was issued stops without a parsed   *)
(* document (transport failure, non-2xx status, decoder failure or no      *)
(* content, parser rejection), the stopping step has appended at least one *)
(* diagnostic to errors.                                                   *)
C11_FailureLeavesDiagnostic ==
    [][ (/\ pc = "crawl"
         /\ Top.pc \in {"fetch", "body"}
         /\ BranchStops
         /\ parsed' = parsed)
        => Len(state'.errors) > Len(state.errors)
      ]_vars

ScanErrorDiag == Diag("Unexpected scan error", Null)

(* C12: the top-level candidates are called in list order at depth 0 and   *)
(* success does not end the loop: while the fetch ceiling is not reached   *)
(* the next candidate is called whatever urls holds, each call returns     *)
(* with its candidate fetched (then or earlier), the loop is left only     *)
(* past the last candidate or at the ceiling, and a scan that ends below   *)
(* the ceiling and without an escaped exception has fetched them all.      *)
C12_CandidatesNotShortCircuited ==
    [][ /\ (pc = "cand" /\ ci <= Len(cands) /\ ~CeilingHit)
              => (pc' = "crawl" /\ stack' = <<Frame(cands[ci], 0)>> /\ ci' = ci)
        /\ (pc = "crawl" /\ pc' = "cand")
              => (ci' = ci + 1 /\ cands[ci] \in state'.visitedSitemaps)
        /\ (pc = "cand" /\ pc' = "assemble") => (ci > Len(cands) \/ CeilingHit)
        /\ (pc \in {"cand", "crawl"}) => cands' = cands
        /\ (pc = "assemble" /\ ~CeilingHit /\ ScanErrorDiag \notin Range(state.errors))
              => Range(cands) \subseteq state.visitedSitemaps
      ]_vars

(* A finished scan whose first candidate was a urlset with pages and whose *)
(* second candidate was fetched all the same.                              *)
C12_Witness ==
    /\ pc = "done"
    /\ Len(cands) >= 2
    /\ \E d \in Urlsets : d.url = cands[1] /\ d.locs # <<>>
    /\ state.urls # <<>>
    /\ TriedCount(cands[2]) = 1

RobotsReadable(o) == o.fetch = "ok" /\ o.status = 200 /\ o.read

(* The positions of the Sitemap directives of a robots.txt text that       *)
(* resolve against the origin, and the URL each resolves to.               *)
DirectiveAt(text) ==
    {i \in 1..Len(text) : text[i].sitemap /\ safeUrl(text[i].value, Origin) # Null}
DirectiveUrl(text, i) == safeUrl(text[i].value, Origin)
FirstDirective(text, u) ==
    CHOOSE i \in DirectiveAt(text) :
        /\ DirectiveUrl(text, i) = u
        /\ \A j \in DirectiveAt(text) : DirectiveUrl(text, j) = u => i <= j

FallbackPaths ==
    << <<"/sitemap", ".xml">>, <<"/sitemap_index", ".xml">>, <<"/sitemap-index", ".xml">>,
       <<"/sitemap", ".xml", ".gz">>, <<"/sitemap-index", ".xml", ".gz">>,
       <<"/sitemap_index", ".xml", ".gz">> >>

RobotsFailureDiags ==
    {Diag("robots.txt fetch failed", Null), Diag("robots.txt fetch failed status", Null)}

C14_RobotsTriedOnce ==
    pc \in {"cand", "crawl", "assemble", "done"} =>
        /\ TriedCount(ROBOTS) = 1
        /\ state.tried[1].url = ROBOTS

SitemapEntries(tried) == Cardinality({i \in 1..Len(tried) : tried[i].url # ROBOTS})
InFlight(stk) == Cardinality({i \in 1..Len(stk) : stk[i].pc = "fetch"})
IsPrefix(s, t) == Len(s) <= Len(t) /\ SubSeq(t, 1, Len(s)) = s

(* C15: tried is append-only; the step in which a sitemap fetch settles    *)
(* appends exactly one entry for that sitemap, with the HTTP status or     *)
(* with status 0 and an error text, and no other step of the crawl appends *)
(* any; at most one fetch is in flight, so the entries are in attempt      *)
(* order; the sitemap entries of tried and the fetch in flight add up to   *)
(* sitemapsFetched, and the written record has as many sitemap entries as  *)
(* sitemapsFetched.                                                        *)
C15_OneEntryPerAttempt ==
    [][ /\ IsPrefix(state.tried, state'.tried)
        /\ (pc = "crawl" /\ Top.pc = "fetch") =>
              \E e \in {Last(state'.tried)} :
                  /\ state'.tried = Append(state.tried, e)
                  /\ e.url = Top.sitemapUrl
                  /\ \/ e.status = 0 /\ e.error # ""
                     \/ e.status # 0 /\ e.error = ""
        /\ (pc = "crawl" /\ Top.pc # "fetch") => state'.tried = state.tried
        /\ InFlight(stack') <= 1
        /\ SitemapEntries(state'.tried) + InFlight(stack') = state'.sitemapsFetched
        /\ pc' = "done" => SitemapEntries(store'.tried) = state'.sitemapsFetched
      ]_vars

(* A finished scan that spent its whole budget: one attempt failed in      *)
(* transport, one got a 404, one a 200.                                    *)
C15_Witness ==
    /\ pc = "done"
    /\ state.sitemapsFetched = maxSitemapsFetched
    /\ SitemapEntries(store.tried) = maxSitemapsFetched
    /\ \A s \in {0, 404, 200} :
          \E i \in 1..Len(store.tried) :
              store.tried[i].url # ROBOTS /\ store.tried[i].status = s

(* C16: primarySitemapUrl is null exactly while no document has parsed;    *)
(* it changes only in the step that parses the first document of the scan, *)
(* to the URL of that document, and never afterwards; it is a member of    *)
(* visitedSitemaps; a step in which a node fails at fetch, decode or parse *)
(* leaves it alone.                                                        *)
C16_PrimarySetOnce ==
    [][ /\ (state'.primarySitemapUrl = Null) <=> (parsed' = {})
        /\ state'.primarySitemapUrl # Null
              => state'.primarySitemapUrl \in state'.visitedSitemaps
        /\ state'.primarySitemapUrl # state.primarySitemapUrl =>
              /\ state.primarySitemapUrl = Null
              /\ parsed = {}
              /\ pc = "crawl" /\ Top.pc = "body"
              /\ \E d \in parsed' : parsed' = {d} /\ d.url = Top.sitemapUrl
                                      /\ state'.primarySitemapUrl = d.url
        /\ parsed' = parsed => state'.primarySitemapUrl = state.primarySitemapUrl
      ]_vars

(* Two documents parsed, after a node that failed first: the primary is    *)
(* the URL of the earlier document.                                        *)
C16_Witness ==
    /\ Cardinality(parsed) = 2
    /\ Len(state.tried) >= 2
    /\ state.tried[2].status # 200
    /\ \E d \in parsed : d.url = state.primarySitemapUrl /\ d.url # state.tried[2].url
    /\ \E i \in 1..Len(state.tried) :
          /\ state.tried[i].url = state.primarySitemapUrl
          /\ \A d \in parsed, j \in 1..Len(state.tried) :
                state.tried[j].url = d.url => i <= j

(* C17: the record a scan has written holds exactly the URLs the scan      *)
(* accumulated, in their order (the slice drops nothing); urlCount is      *)
(* their number and at most limits.maxUrlsStored; found is true if and     *)
(* only if there is at least one.                                          *)
C17_RecordHoldsAccumulatedUrls ==
    pc = "done" =>
        /\ store.urls = state.urls
        /\ store.urlCount = Len(store.urls)
        /\ store.urlCount <= maxUrlsStored
        /\ store.found <=> (store.urls # <<>>)

(* A written record of a scan that filled urls and turned locations away.  *)
C17_Witness ==
    /\ pc = "done"
    /\ store.found
    /\ store.urlCount = maxUrlsStored
    /\ store.truncated

NotFoundDiags(errors) ==
    {i \in 1..Len(errors) : errors[i].msg = "Sitemap fetch failed status"}

(* The scenario of C18 in a finished scan: robots.txt was read and         *)
(* declared the one sitemap x; x parsed as an index listing a and b; a     *)
(* parsed as a urlset of n >= 1 pages with pairwise different normalized   *)
(* forms, n below the URL cap; b, if fetched, answered 404.                *)
Scenario18(x, a, b, n) ==
    /\ pc = "done"
    /\ cands = <<x>>
    /\ state.tried # <<>> /\ state.tried[1] = [url |-> ROBOTS, status |-> 200, error |-> ""]
    /\ TriedCount(ROBOTS) = 1
    /\ Cardinality({x, a, b}) = 3
    /\ [url |-> x, depth |-> 0, kind |-> "sitemapindex", locs |-> <<a, b>>] \in parsed
    /\ \E d \in Urlsets :
          /\ d.url = a
          /\ Len(d.locs) = n
          /\ Cardinality(NormalizedLocs(d)) = n
    /\ n < maxUrlsStored
    /\ \A i \in 1..Len(state.tried) : state.tried[i].url = b => state.tried[i].status = 404

YoungerThanTtl(r) == r.present /\ now - r.scannedAt < TTL_MS
CacheReadDiag == Diag("Cache read failed", Null)

C21_RecordWrittenOnceAndWhole ==
    [][ /\ store' # store =>
              \/ /\ pc = "assemble" /\ pc' = "done"
                 /\ stack = <<>>
                 /\ ci > Len(cands) \/ CeilingHit \/ Last(state.errors) = ScanErrorDiag
                 /\ store' = Record(state, now)
              \/ /\ other = "crawl" /\ other' = "done"
                 /\ otherOrigin = Origin
                 /\ store' = OtherRecord
        /\ pc \in {"done", "gone", "skipped"} => pc' = pc
        /\ pc # "gone" /\ pc' = "gone" => store' = store
        /\ \/ store' = NoRecord
           \/ other' = "done" /\ store' = OtherRecord
           \/ pc' = "done" /\ store' = Record(state', now')
      ]_vars

(* Two scans of the origin overlapped and both wrote: the store holds the  *)
(* record of the later writer, with nothing of the other in it.            *)
C21_Witness ==
    /\ pc = "done"
    /\ other = "done"
    /\ otherOrigin = Origin
    /\ state.urls # <<>>
    /\ store = OtherRecord
    /\ store # Record(state, now)

(* C22: an exception in the crawl phase ends the crawl with one            *)
(* "Unexpected scan error" diagnostic added and nothing else of the state  *)
(* changed, and the write that follows stores every URL, tried entry and   *)
(* diagnostic the scan had accumulated, the new diagnostic included.       *)
C22_ExceptionKeepsAccumulated ==
    [][ /\ pc = "crawl" /\ pc' = "assemble" =>
              /\ state' = [state EXCEPT !.errors = Append(@, ScanErrorDiag)]
              /\ stack' = <<>>
        /\ pc = "assemble" /\ ScanErrorDiag \in Range(state.errors) =>
              /\ pc' = "done"
              /\ state' = state
              /\ store'.present
              /\ store'.urls = state.urls
              /\ store'.urlCount = Len(state.urls)
              /\ store'.tried = state.tried
              /\ store'.errors = state.errors
              /\ store'.truncated = state.truncated
      ]_vars

(* A scan that had collected URLs, tried entries and diagnostics before    *)
(* the exception has written them all.                                     *)
C22_Witness ==
    /\ pc = "done"
    /\ Len(store.errors) > 1
    /\ Last(store.errors) = ScanErrorDiag
    /\ store.urls # <<>>
    /\ Len(store.tried) > 1

(* C23: the popup's cache-clear removes the record under the key of the    *)
(* active tab's origin and touches nothing else (the record of the other   *)
(* origin and the running scan are as before); from then on a page load of *)
(* that origin whose cache read succeeds goes on to a full scan, however   *)
(* young the removed record was: the scan is skipped only over a record    *)
(* that is present when it is read.                                        *)
C23_ClearForcesFullScan ==
    [][ /\ pc' = pc /\ state' = state /\ stack' = stack /\ store' # store =>
              store' = NoRecord /\ otherStore' = otherStore
        /\ pc' = pc /\ state' = state /\ stack' = stack /\ otherStore' # otherStore =>
              otherStore' = NoRecord /\ store' = store
        /\ pc = "start" /\ ~store.present /\ pc' # pc => pc' = "robots"
        /\ pc = "start" /\ pc' = "skipped" => YoungerThanTtl(store)
      ]_vars

(* The record was written at this very tick, the cache read succeeded, and *)
(* the page has nevertheless run a full scan and written a new record.     *)
C23_Witness ==
    /\ pc = "done"
    /\ now = OldFoundRecord.scannedAt
    /\ CacheReadDiag \notin Range(state.errors)
    /\ state.sitemapsFetched > 0
    /\ store = Record(state, now)
    /\ otherStore = OldRecord

(* C24: when the two pages are of different origins, a step of one scan    *)
(* changes neither the other scan's state nor the other origin's record:   *)
(* the record of each origin is absent until its own scan writes, and is   *)
(* then the record assembled from that scan's own CrawlState, whatever the *)
(* interleaving.                                                           *)
C24_OriginsDoNotInterfere ==
    [][ otherOrigin = OriginB =>
          /\ other' # other =>
                /\ UNCHANGED <<pc, state, stack, cands, ci, parsed, store>>
                /\ other' = "done" => otherStore' = OtherRecord
          /\ (pc' # pc \/ state' # state \/ stack' # stack) /\ pc' # "gone" =>
                /\ UNCHANGED <<other, otherStore>>
                /\ pc' # "skipped"
          /\ store' = IF pc' = "done" THEN Record(state', now') ELSE NoRecord
          /\ otherStore' = IF other' = "done" THEN OtherRecord ELSE NoRecord
      ]_vars

(* Both scans have run, interleaved, and each origin holds its own record. *)
C24_Witness ==
    /\ otherOrigin = OriginB
    /\ pc = "done"
    /\ other = "done"
    /\ state.urls # <<>>
    /\ store = Record(state, now)
    /\ otherStore = OtherRecord
    /\ store # otherStore

EndsInGz(u) == Len(u) > 0 /\ u[Len(u)] = ".gz"
WithError(st, d) == [st EXCEPT !.errors = Append(@, d)]
GzipUnavailableDiag(url) == Diag("Cannot parse gzip sitemap", url)
GzipFailedDiag(url) == Diag("Failed to decompress gzip sitemap", url)

(* C25: a response is handled as compressed exactly when its               *)
(* Content-Encoding names gzip or its URL ends in .gz.  When the body of a *)
(* compressed response settles with DecompressionStream undefined, the     *)
(* node adds the one "Cannot parse gzip" diagnostic and nothing else, and  *)
(* the scan goes on; with DecompressionStream defined either the           *)
(* decompression fails, the node adds the one "Failed to decompress"       *)
(* diagnostic and nothing else, and the scan goes on, or the decoded text  *)
(* is what a plain response of that text would have given, no decoder      *)
(* diagnostic is added and no exception ends the crawl.  A response not    *)
(* compressed never adds a decoder diagnostic.                             *)
C25_GzipDecision ==
    [][ /\ \A k \in 1..Len(stack') :
              stack'[k].pc = "body" =>
                  (stack'[k].gzip <=> (stack'[k].enc \/ EndsInGz(stack'[k].sitemapUrl)))
        /\ (pc = "crawl" /\ Len(stack) > 0 /\ stack[Len(stack)].pc = "body") =>
              LET f == Top
                  u == f.sitemapUrl
                  compressed == f.enc \/ EndsInGz(u)
                  added == {state'.errors[j] : j \in Len(state.errors) + 1 .. Len(state'.errors)}
                  nodeGivesUp(d) ==
                      /\ state' = WithError(state, d)
                      /\ parsed' = parsed
                      /\ pc' \in {"crawl", "cand"}
                      /\ Len(stack') = Len(stack) - 1
              IN  /\ compressed /\ hasDS' = "undefined" => nodeGivesUp(GzipUnavailableDiag(u))
                  /\ compressed /\ hasDS' = "function" =>
                        \/ nodeGivesUp(GzipFailedDiag(u))
                        \/ /\ added \cap {GzipUnavailableDiag(u), GzipFailedDiag(u)} = {}
                           /\ pc' \in {"crawl", "cand"}
                           /\ \A o \in BodyOutcomes :
                                 o.read /\ o.gunzip =>
                                     responseToSitemapText(o, TRUE, u, TRUE, state)
                                         = responseToSitemapText(o, FALSE, u, TRUE, state)
                  /\ compressed => hasDS' # "unobserved"
                  /\ ~compressed =>
                        added \cap {GzipUnavailableDiag(u), GzipFailedDiag(u)} = {}
      ]_vars

(* An index at a .gz URL, served without the header, was decompressed and  *)
(* parsed, and its children are being crawled.                             *)
C25_Witness ==
    /\ hasDS = "function"
    /\ \E k \in 1..Len(stack) :
          /\ stack[k].pc = "loop"
          /\ EndsInGz(stack[k].sitemapUrl)
          /\ ~stack[k].enc
          /\ stack[k].gzip
          /\ stack[k].locs # <<>>
          /\ \E d \in Indexes : d.url = stack[k].sitemapUrl

(* C26: normalizeUrl applied to a result of normalizeUrl returns it        *)
(* unchanged, for every input on which the first call succeeds, also when  *)
(* the path holds /index.html more than once.                              *)
C26_NormalizeIdempotent ==
    norm.step = 2 => norm.twice = norm.once

(* A path with /index.html twice at its end: the first call rewrote the    *)
(* last one, the second call had nothing left to rewrite.                  *)
C26_Witness ==
    /\ norm.step = 2
    /\ norm.input = <<"/p", "/index.html", "/index.html">>
    /\ norm.once = <<"/p", "/index.html", "/">>
    /\ norm.twice = norm.once

(* C27: the children of an index are crawled one after the other in        *)
(* document order.  Only the innermost activation of fetchAndParseSitemap  *)
(* runs; every activation below it waits in its loop for the child it      *)
(* called, which is the child at its loop position, one level deeper; so   *)
(* at most one fetch is in flight.  A child is started only by the         *)
(* innermost activation at the head of its loop, for the location at its   *)
(* position; the position starts at the first location and moves on by one *)
(* only when the child called for it, with its whole subtree, has          *)
(* returned.                                                               *)
C27_ChildrenSequential ==
    [][ /\ pc' # "crawl" => stack' = <<>>
        /\ \A k \in 1..Len(stack') - 1 :
              /\ stack'[k].pc = "loop"
              /\ stack'[k].i \in 1..Len(stack'[k].locs)
              /\ stack'[k + 1].url = stack'[k].locs[stack'[k].i]
              /\ stack'[k + 1].depth = stack'[k].depth + 1
        /\ Len(stack') <= Len(stack) + 1
        /\ (Len(stack') = Len(stack) + 1 /\ Len(stack) > 0) =>
              /\ stack[Len(stack)].pc = "loop"
              /\ Front(stack') = stack
              /\ Last(stack') = Frame(Top.locs[Top.i], Top.depth + 1)
        /\ \A k \in 1..Len(stack) :
              k <= Len(stack') =>
                  /\ stack[k].pc = "body" /\ stack'[k].pc = "loop" => stack'[k].i = 1
                  /\ stack[k].pc # "body" => stack'[k].locs = stack[k].locs
                  /\ stack'[k].i # stack[k].i =>
                        /\ k = Len(stack)
                        /\ stack[k].pc = "ret"
                        /\ stack'[k].i = stack[k].i + 1
        /\ \A k \in 1..Len(stack') :
              (k <= Len(stack) /\ stack'[k].pc = "ret" /\ stack[k].pc # "ret") =>
                  /\ Len(stack) = k + 1
                  /\ Len(stack') = k
      ]_vars

(* The second child of an index is being fetched, after the first was      *)
(* crawled to its end.                                                     *)
C27_Witness ==
    /\ Len(stack) = 2
    /\ stack[1].i = 2
    /\ stack[2].pc = "fetch"
    /\ stack[2].url = stack[1].locs[2]
    /\ \E d \in Urlsets : d.url = stack[1].locs[1] /\ d.depth = 1

(* C28 as stated: at the end of a scan truncated is true only if some      *)
(* location of a parsed urlset that normalizes to a URL is missing from    *)
(* the stored urls.                                                        *)
C28_TruncatedMeansLoss ==
    (pc = "done" /\ store.truncated) =>
        \E d \in Urlsets : \E l \in Range(d.locs) :
            /\ normalizeUrl(l) # Null
            /\ normalizeUrl(l) \notin Range(store.urls)

(* C29: a call of fetchAndParseSitemap for a URL that resolves to a member *)
(* of visitedSitemaps returns at once: the state object (urls,             *)
(* visitedSitemaps, sitemapsFetched, tried, errors, truncated,             *)
(* primarySitemapUrl) is as before, nothing is parsed or stored, and no    *)
(* fetch is issued.                                                        *)
C29_VisitedCallIsNoOp ==
    [][ (/\ pc = "crawl"
         /\ Len(stack) > 0
         /\ stack[Len(stack)].pc = "entry"
         /\ safeUrl(Top.url, Origin) \in state.visitedSitemaps) =>
            /\ state' = state
            /\ parsed' = parsed
            /\ store' = store
            /\ Len(stack') = Len(stack) - 1
            /\ \A k \in 1..Len(stack') : stack'[k].pc \notin {"entry", "fetch", "body"}
      ]_vars

(* An index names the same child twice; the call for the second mention    *)
(* has returned, and the child was fetched once.                           *)
C29_Witness ==
    /\ pc = "crawl"
    /\ Len(stack) = 1
    /\ Top.pc = "ret"
    /\ Top.i = 2
    /\ Top.locs[2] = Top.locs[1]
    /\ Top.locs[2] \in state.visitedSitemaps
    /\ Len(SelectSeq(state.tried, LAMBDA t : t.url = Top.locs[2])) = 1

(* C30: after every step of a scan sitemapsFetched is the number of        *)
(* members of visitedSitemaps; no step lowers the counter or takes a URL   *)
(* out of the set; and a fetch is issued only for a URL that was not in    *)
(* the set, so a sitemap whose fetch failed is not fetched again.          *)
C30_FetchedCountsVisited ==
    [][ /\ state'.sitemapsFetched = Cardinality(state'.visitedSitemaps)
        /\ state'.sitemapsFetched >= state.sitemapsFetched
        /\ state.visitedSitemaps \subseteq state'.visitedSitemaps
        /\ \A k \in 1..Len(stack') :
              (stack'[k].pc = "fetch" /\ (k > Len(stack) \/ stack[k].pc # "fetch")) =>
                  /\ stack'[k].sitemapUrl \notin state.visitedSitemaps
                  /\ state'.visitedSitemaps = state.visitedSitemaps \cup {stack'[k].sitemapUrl}
                  /\ state'.sitemapsFetched = state.sitemapsFetched + 1
      ]_vars

(* An index names a child twice and the child's fetch failed: the call for *)
(* the second mention has returned without another attempt.                *)
C30_Witness ==
    /\ pc = "crawl"
    /\ Len(stack) = 1
    /\ Top.pc = "ret"
    /\ Top.i = 2
    /\ Top.locs[2] = Top.locs[1]
    /\ state.sitemapsFetched = Cardinality(state.visitedSitemaps)
    /\ state.sitemapsFetched >= 2
    /\ \E j \in 1..Len(state.tried) :
          /\ state.tried[j].url = Top.locs[2]
          /\ state.tried[j].status # 200
          /\ \A m \in 1..Len(state.tried) : state.tried[m].url = Top.locs[2] => m = j

RECURSIVE ReachableWithin(_)
(* The sitemaps within k index links of a top-level candidate, by the      *)
(* documents parsed.                                                       *)
ReachableWithin(k) ==
    IF k = 0 THEN Range(cands)
    ELSE LET r == ReachableWithin(k - 1)
         IN  r \cup UNION {Range(d.locs) : d \in {x \in Indexes : x.url \in r}}

(* Every request of the scan was answered 200 and every sitemap fetched    *)
(* was parsed.                                                             *)
AllFetchesSucceeded ==
    /\ \A j \in 1..Len(state.tried) : state.tried[j].status = 200
    /\ \A v \in state.visitedSitemaps : \E d \in parsed : d.url = v
    /\ ScanErrorDiag \notin Range(state.errors)

(* C31 as stated: at the end of a scan in which all fetches succeeded and  *)
(* neither the fetch ceiling nor the URL cap was reached, every sitemap    *)
(* within maxDepth index links of a top-level candidate has been fetched.  *)
C31_ReachableWithinDepthFetched ==
    (/\ pc = "done"
     /\ AllFetchesSucceeded
     /\ state.sitemapsFetched < maxSitemapsFetched
     /\ Len(state.urls) < maxUrlsStored) =>
        ReachableWithin(maxDepth) \subseteq state.visitedSitemaps

TruncatedDiag == Diag("URL list truncated", Null)
TruncatedDiagCount(st) ==
    Cardinality({j \in 1..Len(st.errors) : st.errors[j] = TruncatedDiag})

(* C33: truncated, once true, stays true, and after every step errors      *)
(* holds the "URL list truncated" diagnostic once if truncated is true and *)
(* not at all if it is false; a step that finds the cap reached again      *)
(* adds no second one.                                                     *)
C33_TruncatedSetOnce ==
    [][ /\ state.truncated => state'.truncated
        /\ TruncatedDiagCount(state') = IF state'.truncated THEN 1 ELSE 0
        /\ state.truncated => TruncatedDiagCount(state') = TruncatedDiagCount(state)
      ]_vars

(* A urlset below an index ran over the cap and marked the scan truncated; *)
(* back in the index the test after the child's return found the cap       *)
(* reached once more; the record has the one diagnostic.                   *)
C33_Witness ==
    /\ pc = "done"
    /\ store.truncated
    /\ TruncatedDiagCount(store) = 1
    /\ \E d \in Urlsets, x \in Indexes :
          /\ x.depth = 0
          /\ d.depth = 1
          /\ d.url \in Range(x.locs)
          /\ parsed = {d, x}
          /\ Cardinality(NormalizedLocs(d) \ {Null}) > maxUrlsStored

(* Position in tried of the answered request for sitemap u.                *)
TriedAt(u) ==
    CHOOSE j \in 1..Len(state.tried) :
        state.tried[j].url = u /\ state.tried[j].status = 200

(* C34: in every stored record sitemapUrl is non-null exactly if found is  *)
(* true.  The record a scan writes has found = false and sitemapUrl = null *)
(* when no URL was collected, also when sitemaps were parsed; and when     *)
(* found is true its sitemapUrl is the URL of the sitemap that parsed      *)
(* first, the one answered earliest among those parsed.                    *)
C34_SitemapUrlIffFound ==
    /\ store.present => ((store.sitemapUrl # Null) <=> store.found)
    /\ pc = "done" =>
          /\ store.found <=> (state.urls # <<>>)
          /\ ~store.found => store.sitemapUrl = Null
          /\ store.found =>
                \E d \in parsed :
                    /\ d.url = store.sitemapUrl
                    /\ \A e \in parsed : TriedAt(d.url) <= TriedAt(e.url)

(* Two sitemaps parsed, an index and its child, and no page URL in either: *)
(* the record names no sitemap although primarySitemapUrl is set.          *)
C34_Witness ==
    /\ pc = "done"
    /\ Cardinality(parsed) = 2
    /\ Urlsets # {}
    /\ \A j \in 1..Len(state.tried) : state.tried[j].status = 200
    /\ state.errors = <<>>
    /\ state.primarySitemapUrl # Null
    /\ ~store.found
    /\ store.sitemapUrl = Null

(* C35: a scan that starts over a record it would have been skipped for    *)
(* goes on to robots.txt only by a failed cache read, and then with the    *)
(* cache-read diagnostic as the one entry of errors and nothing else of    *)
(* its state changed, as a scan that found no record.  From there the      *)
(* diagnostic stays first in errors, the scan is never skipped, robots.txt *)
(* is the first request, and the record written at the end is the record   *)
(* of this scan with the diagnostic first in its errors.                   *)
C35_CacheReadFailureScans ==
    [][ /\ (pc = "start" /\ YoungerThanTtl(store) /\ pc' = "robots") =>
              /\ state' = WithError(InitState, CacheReadDiag)
              /\ store' = store
        /\ (pc = "start" /\ CacheReadDiag \in Range(state'.errors)) => pc' = "robots"
        /\ CacheReadDiag \in Range(state.errors) =>
              /\ state.errors[1] = CacheReadDiag
              /\ state'.errors[1] = CacheReadDiag
              /\ pc' # "skipped"
              /\ pc = "robots" => state'.tried[1].url = ROBOTS
              /\ pc' = "done" =>
                    /\ store' = Record(state', now')
                    /\ store'.errors[1] = CacheReadDiag
                    /\ store'.tried[1].url = ROBOTS
      ]_vars

(* Over a record younger than the TTL the read failed; robots.txt and      *)
(* sitemaps were fetched and the new record, with URLs, is written.        *)
C35_Witness ==
    /\ pc = "done"
    /\ now = OldFoundRecord.scannedAt + TTL_MS - 1
    /\ store.errors # <<>>
    /\ store.errors[1] = CacheReadDiag
    /\ store.tried[1].url = ROBOTS
    /\ store.scannedAt = now
    /\ store.urls # <<>>
    /\ Len(store.tried) > 1

(* The k-th block of ps elements of xs, counted from 0.                    *)
Block(xs, k, ps) ==
    [j \in 1..(IF Len(xs) - k * ps < ps
               THEN (IF Len(xs) - k * ps < 0 THEN 0 ELSE Len(xs) - k * ps)
               ELSE ps) |-> xs[k * ps + j]]

PagesOf(p) ==
    IF Len(p.filtered) = 0 THEN 1
    ELSE CHOOSE n \in 1..Len(p.filtered) :
             (n - 1) * p.pageSize < Len(p.filtered) /\ Len(p.filtered) <= n * p.pageSize

(* C36: after every event of the popup (open, previous page, next page,    *)
(* apply filter, clear filter, page-size change, cache-clear) and the      *)
(* render that ends it, PAGE_INDEX is in 0 .. totalPages - 1, with         *)
(* totalPages = max(1, ceil(|FILTERED_URLS| / PAGE_SIZE)), and the URL box *)
(* shows the PAGE_INDEX-th block of PAGE_SIZE elements of FILTERED_URLS;   *)
(* apply, clear, page-size change and cache-clear leave PAGE_INDEX at 0;   *)
(* previous and next move it by one and stop at the first and last page.   *)
C36_PagerInRange ==
    [][ /\ popup'.pageSize > 0
        /\ popup'.pageIndex \in 0..PagesOf(popup') - 1
        /\ popup'.shown = Block(popup'.filtered, popup'.pageIndex, popup'.pageSize)
        /\ (ApplyFilter \/ ClearFilter \/ PageSizeChange \/ ClearCache) =>
              popup'.pageIndex = 0
        /\ ClearCache => popup'.filtered = <<>> /\ popup'.shown = <<>>
        /\ PrevPage =>
              popup'.pageIndex = IF popup.pageIndex = 0 THEN 0 ELSE popup.pageIndex - 1
        /\ NextPage =>
              popup'.pageIndex = IF popup.pageIndex = PagesOf(popup) - 1
                                 THEN popup.pageIndex ELSE popup.pageIndex + 1
      ]_vars

(* The last page of a filtered list, shorter than a page, is shown after   *)
(* "next" was clicked on it.                                               *)
C36_Witness ==
    /\ Len(popup.all) = MaxPopupUrls
    /\ Len(popup.filtered) = 3
    /\ popup.pageSize = 2
    /\ popup.pageIndex = 1
    /\ popup.shown = <<popup.filtered[3]>>
    /\ popup.filtered[3] = popup.all[MaxPopupUrls]
    /\ store.present

====
